---------------------------- MODULE Spec2Model ----------------------------
(***************************************************************************)
(* A model of rhai-autodocs (src/src/lib.rs): the pipeline that turns the  *)
(* function and module metadata of a rhai engine into markdown.            *)
(*                                                                         *)
(* Strings are sequences of one-character strings, so that prefix, suffix, *)
(* substring, replace, trim, lines and join are computed character by      *)
(* character, as the Rust standard library computes them.  An Option is a  *)
(* record [some |-> BOOLEAN, v |-> value].                                 *)
(***************************************************************************)
EXTENDS Integers, Sequences, FiniteSets, TLC

VARIABLES
    \* remove_result (one call)
    ty, unwrapped, ty_pc,
    \* remove_test_code (one call, line by line)
    doc_text, lines, line_no, in_code_block, formatted, scan_out, scan_pc,
    \* FunctionMetadata::fmt_doc_comments (one call, stage by stage)
    doc_comments, tokens_removed, delimiters_removed, fmt_out, fmt_pc,
    \* generate_function_definition (one call)
    metadata, definition, def_pc,
    \* grouping the functions of one module, ordering the groups
    \* and rendering them (the functions of generate_module_documentation)
    functions, order, function_groups, fn_groups, md, order_pc,
    \* generate_documentation over a tree of modules (one module per step)
    engine, options, stack, result, build_pc

typeVars == <<ty, unwrapped, ty_pc>>
scanVars == <<doc_text, lines, line_no, in_code_block, formatted, scan_out, scan_pc>>
fmtVars == <<doc_comments, tokens_removed, delimiters_removed, fmt_out, fmt_pc>>
defVars == <<metadata, definition, def_pc>>
orderVars == <<functions, order, function_groups, fn_groups, md, order_pc>>
buildVars == <<engine, options, stack, result, build_pc>>
vars == <<typeVars, scanVars, fmtVars, defVars, orderVars, buildVars>>

\* What a step of one component leaves alone: the other components.
notType == <<scanVars, fmtVars, defVars, orderVars, buildVars>>
notScan == <<typeVars, fmtVars, defVars, orderVars, buildVars>>
notFmt == <<typeVars, scanVars, defVars, orderVars, buildVars>>
notDef == <<typeVars, scanVars, fmtVars, orderVars, buildVars>>
notOrder == <<typeVars, scanVars, fmtVars, defVars, buildVars>>
notBuild == <<typeVars, scanVars, fmtVars, defVars, orderVars>>

(***************************************************************************)
(* Option<T>                                                               *)
(***************************************************************************)
None == [some |-> FALSE]
Some(x) == [some |-> TRUE, v |-> x]

(***************************************************************************)
(* str                                                                     *)
(***************************************************************************)
Drop(s, n) == SubSeq(s, n + 1, Len(s))
Take(s, n) == SubSeq(s, 1, n)

StartsWith(s, p) == Len(p) <= Len(s) /\ Take(s, Len(p)) = p
EndsWith(s, p) == Len(p) <= Len(s) /\ Drop(s, Len(s) - Len(p)) = p

StripPrefix(s, p) == IF StartsWith(s, p) THEN Some(Drop(s, Len(p))) ELSE None
StripSuffix(s, p) == IF EndsWith(s, p) THEN Some(Take(s, Len(s) - Len(p))) ELSE None

\* Option::or_else
OrElse(o, alt) == IF o.some THEN o ELSE alt

Contains(s, p) == \E i \in 0..(Len(s) - Len(p)) : SubSeq(s, i + 1, i + Len(p)) = p

\* str::replace: every non-overlapping match of p, found left to right.
RECURSIVE Replace(_, _, _)
Replace(s, p, r) ==
    IF Len(s) < Len(p) \/ Len(p) = 0 THEN s
    ELSE IF StartsWith(s, p) THEN r \o Replace(Drop(s, Len(p)), p, r)
    ELSE <<Head(s)>> \o Replace(Tail(s), p, r)

IsWhitespace(c) == c \in {" ", "\t", "\n", "\r"}

RECURSIVE TrimStart(_)
TrimStart(s) == IF s # <<>> /\ IsWhitespace(Head(s)) THEN TrimStart(Tail(s)) ELSE s

RECURSIVE TrimEnd(_)
TrimEnd(s) ==
    IF s # <<>> /\ IsWhitespace(s[Len(s)]) THEN TrimEnd(Take(s, Len(s) - 1)) ELSE s

\* str::trim
Trim(s) == TrimEnd(TrimStart(s))

\* The position of the first line feed of s, 0 when it has none.
FirstLineFeed(s) ==
    IF \E i \in 1..Len(s) : s[i] = "\n"
    THEN CHOOSE i \in 1..Len(s) : s[i] = "\n" /\ \A j \in 1..(i - 1) : s[j] # "\n"
    ELSE 0

StripCarriageReturn(l) ==
    IF l # <<>> /\ l[Len(l)] = "\r" THEN Take(l, Len(l) - 1) ELSE l

\* str::lines: lines end at "\n" or "\r\n"; the terminator is not part of the
\* line, and a final line needs no terminator (so "a\n" has the one line "a").
RECURSIVE Lines(_)
Lines(s) ==
    IF s = <<>> THEN <<>>
    ELSE LET i == FirstLineFeed(s)
         IN IF i = 0 THEN <<s>>
            ELSE <<StripCarriageReturn(Take(s, i - 1))>> \o Lines(Drop(s, i))

\* [String]::join
RECURSIVE Join(_, _)
Join(ss, sep) ==
    IF ss = <<>> THEN <<>>
    ELSE IF Len(ss) = 1 THEN ss[1]
    ELSE ss[1] \o sep \o Join(Tail(ss), sep)

\* Iterator<Item = &str>::collect::<String>(): the pieces one after another.
RECURSIVE Concat(_)
Concat(ss) == IF ss = <<>> THEN <<>> ELSE Head(ss) \o Concat(Tail(ss))

NL == <<"\n">>

(***************************************************************************)
(* remove_result                                                           *)
(***************************************************************************)
STR_RESULT == <<"R", "e", "s", "u", "l", "t", "<">>
STR_ENGINE_RESULT == <<"E", "n", "g", "i", "n", "e", "R", "e", "s", "u", "l", "t", "<">>
STR_RHAI_RESULT_OF == <<"R", "h", "a", "i", "R", "e", "s", "u", "l", "t", "O", "f", "<">>
STR_RHAI_RHAI_RESULT_OF == <<"r", "h", "a", "i", ":", ":", "R", "h", "a", "i", "R", "e", "s", "u", "l", "t", "O", "f", "<">>
SUFFIX_BOX == <<",", "B", "o", "x", "<", "E", "v", "a", "l", "A", "l", "t", "R", "e", "s", "u", "l", "t", ">", ">">>
SUFFIX_BOX_RHAI == <<",", "B", "o", "x", "<", "r", "h", "a", "i", ":", ":", "E", "v", "a", "l", "A", "l", "t", "R", "e", "s", "u", "l", "t", ">", ">">>
SUFFIX_SP_BOX == <<",", " ", "B", "o", "x", "<", "E", "v", "a", "l", "A", "l", "t", "R", "e", "s", "u", "l", "t", ">", ">">>
SUFFIX_SP_BOX_RHAI == <<",", " ", "B", "o", "x", "<", "r", "h", "a", "i", ":", ":", "E", "v", "a", "l", "A", "l", "t", "R", "e", "s", "u", "l", "t", ">", ">">>
STR_GT == <<">">>

\* Option::map_or(ty, str::trim)
MapOrTrim(o, default) == IF o.some THEN Trim(o.v) ELSE default

\* A variant that forgets the spelling with a space and a qualified error type.
StripResultSuffixThree(inner) ==
    OrElse(StripSuffix(inner, SUFFIX_BOX),
    OrElse(StripSuffix(inner, SUFFIX_BOX_RHAI),
           StripSuffix(inner, SUFFIX_SP_BOX)))

\* The four suffixes in the order the code tries them.
StripResultSuffix(inner) ==
    OrElse(StripSuffix(inner, SUFFIX_BOX),
    OrElse(StripSuffix(inner, SUFFIX_BOX_RHAI),
    OrElse(StripSuffix(inner, SUFFIX_SP_BOX),
           StripSuffix(inner, SUFFIX_SP_BOX_RHAI))))

remove_result(t) ==
    LET res == StripPrefix(t, STR_RESULT)
        eng == StripPrefix(t, STR_ENGINE_RESULT)
        rof == OrElse(StripPrefix(t, STR_RHAI_RESULT_OF),
                      StripPrefix(t, STR_RHAI_RHAI_RESULT_OF))
    IN MapOrTrim(
         IF res.some THEN StripResultSuffix(res.v)
         ELSE IF eng.some THEN StripSuffix(eng.v, STR_GT)
         ELSE IF rof.some THEN StripSuffix(rof.v, STR_GT)
         ELSE None,
         t)


(***************************************************************************)
(* Type strings handed to remove_result: a wrapper prefix (or none, or a   *)
(* near miss), an inner type, and a suffix (one of the four spellings, a   *)
(* bare closing bracket, none, or a near miss).                            *)
(***************************************************************************)
MaxInnerLen == 2

SeqsUpTo(S, n) == UNION {[1..k -> S] : k \in 0..n}

TypePrefixes ==
    { <<>>, STR_RESULT, STR_ENGINE_RESULT, STR_RHAI_RESULT_OF, STR_RHAI_RHAI_RESULT_OF,
      <<"r", "h", "a", "i", ":", ":">> \o STR_RESULT }

TypeInners ==
    { lead \o body : lead \in {<<>>, <<"&", "m", "u", "t", " ">>},
                     body \in SeqsUpTo({"T", " "}, MaxInnerLen) }

TypeSuffixes ==
    { <<>>, STR_GT, <<">", " ">>,
      SUFFIX_BOX, SUFFIX_BOX_RHAI, SUFFIX_SP_BOX, SUFFIX_SP_BOX_RHAI,
      Take(SUFFIX_BOX, Len(SUFFIX_BOX) - 1),
      <<",", " ">> \o Tail(SUFFIX_SP_BOX) }

TypeInputs == { p \o i \o s : p \in TypePrefixes, i \in TypeInners, s \in TypeSuffixes }

TypeIdle == ty = <<>> /\ unwrapped = <<>> /\ ty_pc = "idle"

InitType ==
    /\ ty \in TypeInputs
    /\ unwrapped = <<>>
    /\ ty_pc = "call"

RemoveResult ==
    /\ ty_pc = "call"
    /\ unwrapped' = remove_result(ty)
    /\ ty_pc' = "done"
    /\ UNCHANGED <<ty, notType>>

NextType == RemoveResult

(***************************************************************************)
(* Doc comments                                                            *)
(***************************************************************************)
RHAI_FUNCTION_INDEX_PATTERN == <<"#", " ", "r", "h", "a", "i", "-", "a", "u", "t", "o", "d", "o", "c", "s", ":", "i", "n", "d", "e", "x", ":">>
STR_DOC3SP == <<"/", "/", "/", " ">>
STR_DOC3 == <<"/", "/", "/">>
STR_BLOCK_OPEN == <<"/", "*", "*">>
STR_BLOCK_CLOSE == <<"*", "*", "/">>
\* The grave accent, which a string of this language cannot hold, by its code point.
BACKTICK == "U+0060"
STR_FENCE == <<BACKTICK, BACKTICK, BACKTICK>>
STR_HASH == <<"#">>
STR_HASH_BRACE == <<"#", "{">>

fmt_doc_comments(dc) ==
    Replace(Replace(Replace(Replace(Replace(dc,
        STR_DOC3SP, <<>>), STR_DOC3, <<>>), STR_BLOCK_OPEN, <<>>),
        STR_BLOCK_CLOSE, <<>>), STR_BLOCK_CLOSE, <<>>)

HasNoIndexPattern(l) == ~Contains(l, RHAI_FUNCTION_INDEX_PATTERN)

\* One fragment of remove_extra_tokens: its lines without the directive lines,
\* collected into a String.
FragmentWithoutTokens(s) == Concat(SelectSeq(Lines(s), HasNoIndexPattern))

remove_extra_tokens(dc) ==
    Join([i \in 1..Len(dc) |-> FragmentWithoutTokens(dc[i])], NL)

IsFenceLine(line) == Trim(line) = STR_FENCE

IsHiddenLine(line) == StartsWith(line, STR_HASH) /\ ~StartsWith(line, STR_HASH_BRACE)

\* A variant that also hides the lines starting with `#{`.
ScanLineHidesBraces(st, line) ==
    IF IsFenceLine(line)
    THEN [in_code_block |-> ~st.in_code_block, formatted |-> Append(st.formatted, line)]
    ELSE IF ~(st.in_code_block /\ StartsWith(line, STR_HASH))
    THEN [in_code_block |-> st.in_code_block, formatted |-> Append(st.formatted, line)]
    ELSE st

\* One iteration of the loop of remove_test_code, on the pair
\* (in_code_block, formatted).
ScanLine(st, line) ==
    IF IsFenceLine(line)
    THEN [in_code_block |-> ~st.in_code_block, formatted |-> Append(st.formatted, line)]
    ELSE IF ~(st.in_code_block /\ IsHiddenLine(line))
    THEN [in_code_block |-> st.in_code_block, formatted |-> Append(st.formatted, line)]
    ELSE st

RECURSIVE ScanLines(_, _)
ScanLines(st, ls) == IF ls = <<>> THEN st ELSE ScanLines(ScanLine(st, Head(ls)), Tail(ls))

remove_test_code(text) ==
    Join(ScanLines([in_code_block |-> FALSE, formatted |-> <<>>], Lines(text)).formatted, NL)

\* Option<Vec<String>> -> Option<String>
FunctionMetadata_fmt_doc_comments(dc) ==
    IF dc.some THEN Some(remove_test_code(fmt_doc_comments(remove_extra_tokens(dc.v))))
    ELSE None

\* Option<String> -> Option<String>
ModuleMetadata_fmt_doc_comments(doc) ==
    IF doc.some THEN Some(remove_test_code(fmt_doc_comments(doc.v))) ELSE None

(***************************************************************************)
(* remove_test_code, one loop iteration per step.  The text is some lines  *)
(* of ScanLinePool joined by line feeds, with or without a final one.      *)
(***************************************************************************)
MaxLines == 4

ScanLinePool ==
    { <<>>, <<"a">>, STR_FENCE, <<" ">> \o STR_FENCE \o <<" ">>,
      <<"#", "a">>, <<"#", "{", "a">>, <<" ", "#", "a">> }

ScanTexts ==
    { Join(ls, NL) \o end : ls \in SeqsUpTo(ScanLinePool, MaxLines), end \in {<<>>, NL} }

ScanIdle ==
    /\ doc_text = <<>> /\ lines = <<>> /\ line_no = 0 /\ in_code_block = FALSE
    /\ formatted = <<>> /\ scan_out = <<>> /\ scan_pc = "idle"

InitScan ==
    /\ doc_text \in ScanTexts
    /\ lines = Lines(doc_text)
    /\ line_no = 1
    /\ in_code_block = FALSE
    /\ formatted = <<>>
    /\ scan_out = <<>>
    /\ scan_pc = "loop"

RemoveTestCodeLine ==
    /\ scan_pc = "loop"
    /\ line_no <= Len(lines)
    /\ LET st == ScanLine([in_code_block |-> in_code_block, formatted |-> formatted],
                          lines[line_no])
       IN /\ in_code_block' = st.in_code_block
          /\ formatted' = st.formatted
    /\ line_no' = line_no + 1
    /\ UNCHANGED <<doc_text, lines, scan_out, scan_pc, notScan>>

RemoveTestCodeJoin ==
    /\ scan_pc = "loop"
    /\ line_no > Len(lines)
    /\ scan_out' = Join(formatted, NL)
    /\ scan_pc' = "done"
    /\ UNCHANGED <<doc_text, lines, line_no, in_code_block, formatted, notScan>>

NextScan == RemoveTestCodeLine \/ RemoveTestCodeJoin

(***************************************************************************)
(* FunctionMetadata::fmt_doc_comments, one stage per step.  A fragment of  *)
(* docComments is one line or two lines of FmtLinePool, or empty.          *)
(***************************************************************************)
MaxFragments == 2

FmtLinePool ==
    { STR_DOC3SP \o <<"a">>, STR_DOC3, <<"b">>,
      STR_DOC3SP \o RHAI_FUNCTION_INDEX_PATTERN \o <<"1">> }

Fragments ==
    {<<>>} \cup FmtLinePool \cup { a \o NL \o b : a \in FmtLinePool, b \in FmtLinePool }

DocCommentInputs == {None} \cup { Some(dc) : dc \in SeqsUpTo(Fragments, MaxFragments) }

FmtIdle ==
    /\ doc_comments = None /\ tokens_removed = <<>> /\ delimiters_removed = <<>>
    /\ fmt_out = None /\ fmt_pc = "idle"

InitFmt ==
    /\ doc_comments \in DocCommentInputs
    /\ tokens_removed = <<>>
    /\ delimiters_removed = <<>>
    /\ fmt_out = None
    /\ fmt_pc = "call"

FmtNoDocComments ==
    /\ fmt_pc = "call"
    /\ ~doc_comments.some
    /\ fmt_pc' = "done"
    /\ UNCHANGED <<doc_comments, tokens_removed, delimiters_removed, fmt_out, notFmt>>

RemoveExtraTokens ==
    /\ fmt_pc = "call"
    /\ doc_comments.some
    /\ tokens_removed' = remove_extra_tokens(doc_comments.v)
    /\ fmt_pc' = "tokens_removed"
    /\ UNCHANGED <<doc_comments, delimiters_removed, fmt_out, notFmt>>

FmtDocComments ==
    /\ fmt_pc = "tokens_removed"
    /\ delimiters_removed' = fmt_doc_comments(tokens_removed)
    /\ fmt_pc' = "delimiters_removed"
    /\ UNCHANGED <<doc_comments, tokens_removed, fmt_out, notFmt>>

RemoveTestCode ==
    /\ fmt_pc = "delimiters_removed"
    /\ fmt_out' = Some(remove_test_code(delimiters_removed))
    /\ fmt_pc' = "done"
    /\ UNCHANGED <<doc_comments, tokens_removed, delimiters_removed, notFmt>>

NextFmt == FmtNoDocComments \/ RemoveExtraTokens \/ FmtDocComments \/ RemoveTestCode

(***************************************************************************)
(* Type names and function definitions                                     *)
(***************************************************************************)
STR_MUT == <<"&", "m", "u", "t">>
STR_NS_SEP == <<":", ":">>
STR_ITER_ITEM == <<"I", "t", "e", "r", "a", "t", "o", "r", "<", "I", "t", "e", "m", "=">>
STR_ITER == <<"I", "t", "e", "r", "a", "t", "o", "r", "<">>
STR_DYNAMIC == <<"D", "y", "n", "a", "m", "i", "c">>
STR_QUESTION == <<"?">>
STR_INT_UPPER == <<"I", "N", "T">>
STR_INT == <<"i", "n", "t">>
STR_FLOAT_UPPER == <<"F", "L", "O", "A", "T">>
STR_FLOAT == <<"f", "l", "o", "a", "t">>
STR_REF_STR == <<"&", "s", "t", "r">>
STR_STRING == <<"S", "t", "r", "i", "n", "g">>
STR_IMMUTABLE_STRING == <<"I", "m", "m", "u", "t", "a", "b", "l", "e", "S", "t", "r", "i", "n", "g">>
\* std::any::type_name of rhai's INT, FLOAT, Array, Blob, Map, Instant and FnPtr
\* (rhai's default features).
TYPE_NAME_INT == <<"i", "6", "4">>
TYPE_NAME_FLOAT == <<"f", "6", "4">>
TYPE_NAME_ARRAY == <<"a", "l", "l", "o", "c", ":", ":", "v", "e", "c", ":", ":", "V", "e", "c", "<", "r", "h", "a", "i", ":", ":", "t", "y", "p", "e", "s", ":", ":", "d", "y", "n", "a", "m", "i", "c", ":", ":", "D", "y", "n", "a", "m", "i", "c", ">">>
TYPE_NAME_BLOB == <<"a", "l", "l", "o", "c", ":", ":", "v", "e", "c", ":", ":", "V", "e", "c", "<", "u", "8", ">">>
TYPE_NAME_MAP == <<"a", "l", "l", "o", "c", ":", ":", "c", "o", "l", "l", "e", "c", "t", "i", "o", "n", "s", ":", ":", "b", "t", "r", "e", "e", ":", ":", "m", "a", "p", ":", ":", "B", "T", "r", "e", "e", "M", "a", "p", "<", "s", "m", "a", "r", "t", "s", "t", "r", "i", "n", "g", ":", ":", "S", "m", "a", "r", "t", "S", "t", "r", "i", "n", "g", "<", "s", "m", "a", "r", "t", "s", "t", "r", "i", "n", "g", ":", ":", "c", "o", "n", "f", "i", "g", ":", ":", "L", "a", "z", "y", "C", "o", "m", "p", "a", "c", "t", ">", ",", " ", "r", "h", "a", "i", ":", ":", "t", "y", "p", "e", "s", ":", ":", "d", "y", "n", "a", "m", "i", "c", ":", ":", "D", "y", "n", "a", "m", "i", "c", ">">>
TYPE_NAME_INSTANT == <<"s", "t", "d", ":", ":", "t", "i", "m", "e", ":", ":", "I", "n", "s", "t", "a", "n", "t">>
TYPE_NAME_FN_PTR == <<"r", "h", "a", "i", ":", ":", "t", "y", "p", "e", "s", ":", ":", "f", "n", "_", "p", "t", "r", ":", ":", "F", "n", "P", "t", "r">>
STR_ARRAY == <<"A", "r", "r", "a", "y">>
STR_BLOB == <<"B", "l", "o", "b">>
STR_MAP == <<"M", "a", "p">>
STR_INSTANT == <<"I", "n", "s", "t", "a", "n", "t">>
STR_FN_PTR == <<"F", "n", "P", "t", "r">>

\* Option::unwrap_or
UnwrapOr(o, default) == IF o.some THEN o.v ELSE default

\* str::split("::").last(): what follows the last separator, the separators
\* being matched left to right.
RECURSIVE SplitLast(_, _)
SplitLast(s, sep) ==
    IF ~Contains(s, sep) THEN s
    ELSE LET i == CHOOSE i \in 0..(Len(s) - Len(sep)) :
                      /\ SubSeq(s, i + 1, i + Len(sep)) = sep
                      /\ \A j \in 0..(i - 1) : SubSeq(s, j + 1, j + Len(sep)) # sep
         IN SplitLast(Drop(s, i + Len(sep)), sep)

def_type_name(t) ==
    LET t1 == Trim(UnwrapOr(StripPrefix(t, STR_MUT), t))
        t2 == remove_result(t1)
        t3 == SplitLast(t2, STR_NS_SEP)
        t4 == Replace(Replace(Replace(Replace(Replace(Replace(Replace(t3,
                  STR_ITER_ITEM, STR_ITER), STR_DYNAMIC, STR_QUESTION),
                  STR_INT_UPPER, STR_INT), TYPE_NAME_INT, STR_INT),
                  STR_FLOAT_UPPER, STR_FLOAT), STR_REF_STR, STR_STRING),
                  STR_IMMUTABLE_STRING, STR_STRING)
        t5 == Replace(t4, TYPE_NAME_FLOAT, STR_FLOAT)
        t6 == Replace(t5, TYPE_NAME_ARRAY, STR_ARRAY)
        t7 == Replace(t6, TYPE_NAME_BLOB, STR_BLOB)
        t8 == Replace(t7, TYPE_NAME_MAP, STR_MAP)
        t9 == Replace(t8, TYPE_NAME_INSTANT, STR_INSTANT)
    IN Replace(t9, TYPE_NAME_FN_PTR, STR_FN_PTR)

STR_GET == <<"g", "e", "t", "$">>
STR_SET == <<"s", "e", "t", "$">>
STR_OP == <<"o", "p", " ">>
STR_FN == <<"f", "n", " ">>
STR_GET_SP == <<"g", "e", "t", " ">>
STR_SET_SP == <<"s", "e", "t", " ">>
STR_OPEN == <<"(">>
STR_CLOSE == <<")">>
STR_ARROW == <<")", " ", "-", ">", " ">>
STR_COMMA_SP == <<",", " ">>
STR_COLON_SP == <<":", " ">>
STR_UNDERSCORE == <<"_">>

OPERATORS ==
    { <<"=", "=">>, <<"!", "=">>, <<">">>, <<">", "=">>, <<"<">>, <<"<", "=">>, <<"i", "n">> }

is_operator(name) == name \in OPERATORS

\* A value of Result, or the panic that ends the call.
Ok(x) == [kind |-> "Ok", v |-> x]
Panic == [kind |-> "Panic"]

\* The head of a definition: `op ` or `fn `, then the name and `(`.
DefinitionHead(m) ==
    (IF is_operator(m.name) THEN STR_OP ELSE STR_FN)
    \o (IF StartsWith(m.name, STR_GET) THEN STR_GET_SP \o Drop(m.name, Len(STR_GET))
        ELSE IF StartsWith(m.name, STR_SET) THEN STR_SET_SP \o Drop(m.name, Len(STR_SET))
        ELSE m.name)
    \o STR_OPEN

\* Parameter i (from 0) of m, which has params: `name: type`.
DefinitionParam(m, i) ==
    LET ps == m.params.v
    IN IF i + 1 > Len(ps) THEN STR_UNDERSCORE \o STR_COLON_SP \o STR_QUESTION
       ELSE UnwrapOr(ps[i + 1].name, STR_UNDERSCORE) \o STR_COLON_SP
            \o (IF ps[i + 1].type.some THEN def_type_name(ps[i + 1].type.v)
                ELSE STR_QUESTION)

DefinitionTail(m) ==
    IF m.return_type.some THEN STR_ARROW \o def_type_name(m.return_type.v) ELSE STR_CLOSE

\* The loop evaluates params.as_ref().expect(..) in each iteration: with params
\* absent its first iteration panics, and with num_params = 0 there is none.
generate_function_definition(m) ==
    IF m.num_params > 0 /\ ~m.params.some THEN Panic
    ELSE Ok(DefinitionHead(m)
            \o Join([k \in 1..m.num_params |-> DefinitionParam(m, k - 1)], STR_COMMA_SP)
            \o DefinitionTail(m))

(***************************************************************************)
(* generate_function_definition on one FunctionMetadata: a name, numParams *)
(* up to MaxParams, params absent or up to MaxParams entries with or       *)
(* without a name and a type, and a return type or none.                   *)
(***************************************************************************)
MaxParams == 2

DefNames == { <<"a", "d", "d">>, <<"=", "=">>, <<"i", "n">>, STR_GET \o <<"x">>, STR_SET \o <<"x">> }

ParamEntries ==
    [ name : {None, Some(<<"a">>)},
      type : {None, Some(<<"&", "m", "u", "t", " ">> \o STR_DYNAMIC)} ]

ReturnTypes ==
    { None, Some(STR_RESULT \o STR_INT_UPPER \o SUFFIX_SP_BOX),
      Some(<<"r", "h", "a", "i", ":", ":">> \o STR_IMMUTABLE_STRING) }

DefInputs ==
    [ name : DefNames,
      num_params : 0..MaxParams,
      params : {None} \cup { Some(ps) : ps \in SeqsUpTo(ParamEntries, MaxParams) },
      return_type : ReturnTypes,
      doc_comments : {None} ]

NoMetadata ==
    [name |-> <<>>, num_params |-> 0, params |-> None, return_type |-> None,
     doc_comments |-> None]

DefIdle == metadata = NoMetadata /\ definition = Ok(<<>>) /\ def_pc = "idle"

InitDef ==
    /\ metadata \in DefInputs
    /\ definition = Ok(<<>>)
    /\ def_pc = "call"

GenerateFunctionDefinition ==
    /\ def_pc = "call"
    /\ definition' = generate_function_definition(metadata)
    /\ def_pc' = "done"
    /\ UNCHANGED <<metadata, notDef>>

NextDef == GenerateFunctionDefinition

(***************************************************************************)
(* Grouping and ordering the functions of a module                         *)
(***************************************************************************)
STR_MISSING_ORD == <<"m", "i", "s", "s", "i", "n", "g", " ", "o", "r", "d", " ", "m", "e", "t", "a", "d", "a", "t", "a", " ", "i", "n", " ", "f", "u", "n", "c", "t", "i", "o", "n", " ">>
\* What core::num::ParseIntError displays.
STR_EMPTY_INT == <<"c", "a", "n", "n", "o", "t", " ", "p", "a", "r", "s", "e", " ", "i", "n", "t", "e", "g", "e", "r", " ", "f", "r", "o", "m", " ", "e", "m", "p", "t", "y", " ", "s", "t", "r", "i", "n", "g">>
STR_INVALID_DIGIT == <<"i", "n", "v", "a", "l", "i", "d", " ", "d", "i", "g", "i", "t", " ", "f", "o", "u", "n", "d", " ", "i", "n", " ", "s", "t", "r", "i", "n", "g">>

\* Error::PreProcessing and Error::Metadata
PreProcessing(msg) == [kind |-> "PreProcessing", msg |-> msg]
Metadata(msg) == [kind |-> "Metadata", msg |-> msg]

\* The printable ASCII characters in the order of their codes.
ASCII == <<" ", "!", "\"", "#", "$", "%", "&", "'", "(", ")", "*", "+", ",", "-", ".", "/", "0", "1", "2", "3", "4", "5", "6", "7", "8", "9", ":", ";", "<", "=", ">", "?", "@", "A", "B", "C", "D", "E", "F", "G", "H", "I", "J", "K", "L", "M", "N", "O", "P", "Q", "R", "S", "T", "U", "V", "W", "X", "Y", "Z", "[", "\\", "]", "^", "_", BACKTICK, "a", "b", "c", "d", "e", "f", "g", "h", "i", "j", "k", "l", "m", "n", "o", "p", "q", "r", "s", "t", "u", "v", "w", "x", "y", "z", "{", "|", "}", "~">>

Byte(c) == CHOOSE i \in 1..Len(ASCII) : ASCII[i] = c

\* String::cmp: the bytes in order, a proper prefix first.  -1, 0 or 1.
RECURSIVE Cmp(_, _)
Cmp(a, b) ==
    IF a = <<>> THEN (IF b = <<>> THEN 0 ELSE -1)
    ELSE IF b = <<>> THEN 1
    ELSE IF Byte(Head(a)) < Byte(Head(b)) THEN -1
    ELSE IF Byte(Head(a)) > Byte(Head(b)) THEN 1
    ELSE Cmp(Tail(a), Tail(b))

\* str::rsplit_once: what precedes and what follows the last match of pat.
RSplitOnce(s, pat) ==
    IF ~Contains(s, pat) THEN None
    ELSE LET i == CHOOSE i \in 0..(Len(s) - Len(pat)) :
                      /\ SubSeq(s, i + 1, i + Len(pat)) = pat
                      /\ \A j \in (i + 1)..(Len(s) - Len(pat)) :
                            SubSeq(s, j + 1, j + Len(pat)) # pat
         IN Some(<<Take(s, i), Drop(s, i + Len(pat))>>)

DIGITS == <<"0", "1", "2", "3", "4", "5", "6", "7", "8", "9">>
IsDigit(c) == \E d \in 1..10 : DIGITS[d] = c
DigitValue(c) == (CHOOSE d \in 1..10 : DIGITS[d] = c) - 1

RECURSIVE DigitsValue(_, _)
DigitsValue(s, acc) ==
    IF s = <<>> THEN acc ELSE DigitsValue(Tail(s), 10 * acc + DigitValue(Head(s)))

\* str::parse::<usize>: an optional `+`, then decimal digits only.  (A number
\* beyond usize::MAX is an error too; no directive of the model is that long.)
ParseUsize(s) ==
    LET digits == IF s # <<>> /\ Head(s) = "+" /\ Len(s) > 1 THEN Tail(s) ELSE s
    IN IF s = <<>> THEN [kind |-> "Err", msg |-> STR_EMPTY_INT]
       ELSE IF \E i \in 1..Len(digits) : ~IsDigit(digits[i])
       THEN [kind |-> "Err", msg |-> STR_INVALID_DIGIT]
       ELSE Ok(DigitsValue(digits, 0))

\* The names of the functions, each once.
GroupKeys(fs) == { fs[i].name : i \in 1..Len(fs) }

\* The overloads of one name, in the order of the input sequence.
Polymorphisms(fs, name) == SelectSeq(fs, LAMBDA f : f.name = name)

Group(fs, name) == [name |-> name, polymorphisms |-> Polymorphisms(fs, name)]

\* The sequences in which a HashMap may hand out the keys of a set.
Enumerations(keys) ==
    { e \in [1..Cardinality(keys) -> keys] : \A k \in keys : \E i \in DOMAIN e : e[i] = k }

\* slice::sort_by(|(a, _), (b, _)| a.cmp(b)), a stable sort: each group is put
\* after the groups, among those already sorted, that are not greater.
RECURSIVE SortInsert(_, _)
SortInsert(sorted, g) ==
    IF sorted = <<>> THEN <<g>>
    ELSE IF Cmp(g.name, Head(sorted).name) < 0 THEN <<g>> \o sorted
    ELSE <<Head(sorted)>> \o SortInsert(Tail(sorted), g)

RECURSIVE SortFrom(_, _)
SortFrom(sorted, rest) ==
    IF rest = <<>> THEN sorted ELSE SortFrom(SortInsert(sorted, Head(rest)), Tail(rest))

\* A variant that leaves the groups as the HashMap enumerated them.
SortByNameKeepsOrder(groups) == groups

SortByName(groups) == SortFrom(<<>>, groups)

\* find_map(|line| line.rsplit_once(PATTERN)) over the docComments of one
\* overload: what follows the last marker in the first fragment that holds one.
RECURSIVE FindIndexText(_)
FindIndexText(dc) ==
    IF dc = <<>> THEN None
    ELSE LET split == RSplitOnce(Head(dc), RHAI_FUNCTION_INDEX_PATTERN)
         IN IF split.some THEN Some(split.v[2]) ELSE FindIndexText(Tail(dc))

\* The inner loop: the overloads with docComments, in order, until one holds a
\* directive.
RECURSIVE FindDirective(_)
FindDirective(polymorphisms) ==
    IF polymorphisms = <<>> THEN None
    ELSE LET dc == Head(polymorphisms).doc_comments
             found == IF dc.some THEN FindIndexText(dc.v) ELSE None
         IN IF found.some THEN found ELSE FindDirective(Tail(polymorphisms))

\* A variant that never writes a group into its slot.
OrderByIndexFromKeepsOrder(groups, k, ordered) == Ok(groups)

\* The loop 'groups from its k-th iteration on.  ordered[index - 1] panics on an
\* index of 0 (the subtraction overflows, or wraps to usize::MAX out of bounds)
\* and on one beyond the length.
RECURSIVE OrderByIndexFrom(_, _, _)
OrderByIndexFrom(groups, k, ordered) ==
    IF k > Len(groups) THEN Ok(ordered)
    ELSE LET found == FindDirective(groups[k].polymorphisms)
         IN IF ~found.some
            THEN PreProcessing(STR_MISSING_ORD \o groups[k].name)
            ELSE LET index == ParseUsize(found.v)
                 IN IF index.kind = "Err" THEN PreProcessing(index.msg)
                    ELSE IF index.v = 0 \/ index.v > Len(ordered) THEN Panic
                    ELSE OrderByIndexFrom(groups, k + 1,
                                          [ordered EXCEPT ![index.v] = groups[k]])

order_function_groups(self, groups) ==
    IF self = "Alphabetical" THEN Ok(SortByName(groups))
    ELSE OrderByIndexFrom(groups, 1, groups)

(***************************************************************************)
(* Rendering                                                               *)
(*                                                                         *)
(* The text of a module is kept in its parts: the header (`# <namespace>`, *)
(* a blank line, and the module's doc comment followed by a blank line),   *)
(* then one block per rendered group.  A block is the fixed markdown       *)
(* template of generate_function_documentation with its four holes: the    *)
(* kind, the display name, the signature lines and the details.            *)
(***************************************************************************)
STR_ANON == <<"a", "n", "o", "n", "$">>
STR_GLOBAL == <<"g", "l", "o", "b", "a", "l">>
STR_HEADING == <<"#", " ">>
STR_BLANK_LINE == <<"\n", "\n">>
STR_OP_KIND == <<"o", "p">>
STR_FN_GET == <<"f", "n", " ", "g", "e", "t", " ">>
STR_FN_SET == <<"f", "n", " ", "s", "e", "t", " ">>

\* The name handed to generate_function_documentation.
DisplayName(name) == Replace(Replace(name, STR_GET, <<>>), STR_SET, <<>>)

BlockKind(root_definition) ==
    IF StartsWith(root_definition, STR_OP_KIND) THEN "op"
    ELSE IF StartsWith(root_definition, STR_FN_GET) THEN "get"
    ELSE IF StartsWith(root_definition, STR_FN_SET) THEN "set"
    ELSE "fn"

\* The definitions defs of all the overloads, one per line: a panic if one of
\* them panicked.
JoinDefinitions(defs) ==
    IF \E i \in 1..Len(defs) : defs[i].kind = "Panic" THEN Panic
    ELSE Ok(Join([i \in 1..Len(defs) |-> defs[i].v], NL))

Definitions(polymorphisms) ==
    JoinDefinitions([i \in 1..Len(polymorphisms) |->
                        generate_function_definition(polymorphisms[i])])

\* The rest of generate_function_documentation, given the definition of the
\* first overload and the definitions of all of them.
FunctionBlock(name, meta, root_definition, defs) ==
    IF root_definition.kind = "Panic" THEN Panic
    ELSE IF StartsWith(name, STR_ANON) THEN Ok(None)
    ELSE IF defs.kind = "Panic" THEN Panic
    ELSE Ok(Some([kind |-> BlockKind(root_definition.v),
                  name |-> name,
                  definitions |-> defs.v,
                  details |-> FunctionMetadata_fmt_doc_comments(meta.doc_comments)]))

\* A variant that takes the details from the last overload.
DocumentationFromLastOverload(name, polymorphisms) ==
    FunctionBlock(name, polymorphisms[Len(polymorphisms)],
                  generate_function_definition(Head(polymorphisms)),
                  Definitions(polymorphisms))

\* Ok(Some(block)), Ok(None) for an anonymous function, or a panic.
generate_function_documentation(name, polymorphisms) ==
    FunctionBlock(name, Head(polymorphisms),
                  generate_function_definition(Head(polymorphisms)),
                  Definitions(polymorphisms))

\* The loop over fn_groups from its k-th iteration on, blocks being what
\* md.documentation has gained so far; PushBlock is the body of the iteration
\* once generate_function_documentation has returned fn_doc.
RECURSIVE RenderGroupsFrom(_, _, _)
RECURSIVE PushBlock(_, _, _, _)
PushBlock(groups, k, blocks, fn_doc) ==
    IF fn_doc.kind = "Panic" THEN Panic
    ELSE RenderGroupsFrom(groups, k + 1,
                          IF fn_doc.v.some THEN Append(blocks, fn_doc.v.v) ELSE blocks)

RenderGroupsFrom(groups, k, blocks) ==
    IF k > Len(groups) THEN Ok(blocks)
    ELSE PushBlock(groups, k, blocks,
                   generate_function_documentation(DisplayName(groups[k].name),
                                                   groups[k].polymorphisms))

\* The doc comment of the module with the blank line after it, if it has one.
HeaderDoc(formatted_doc) ==
    IF formatted_doc.some THEN formatted_doc.v \o STR_BLANK_LINE ELSE <<>>

ModuleHeader(namespace, doc) ==
    STR_HEADING \o namespace \o STR_BLANK_LINE
    \o HeaderDoc(ModuleMetadata_fmt_doc_comments(doc))

ModuleDocumentation(namespace, header, blocks) ==
    [name |-> namespace, sub_modules |-> <<>>,
     documentation |-> [header |-> header, blocks |-> blocks]]

\* The node of a module whose groups rendered as blocks, or the panic.
RenderedModule(namespace, doc, blocks) ==
    IF blocks.kind = "Panic" THEN Panic
    ELSE Ok(ModuleDocumentation(namespace, ModuleHeader(namespace, doc), blocks.v))

\* The `?` after order_function_groups, then the loop over the groups.
RenderOrdered(namespace, doc, ordered) ==
    IF ordered.kind # "Ok" THEN ordered
    ELSE RenderedModule(namespace, doc, RenderGroupsFrom(ordered.v, 1, <<>>))

(***************************************************************************)
(* One module's functions, up to MaxFunctions of them, grouped and then    *)
(* ordered.  Under ByIndex a function has no docComments, a comment        *)
(* without a directive, or a directive with an index that is in range, 0,  *)
(* or no number.                                                           *)
(***************************************************************************)
MaxFunctions == 3

Function(name, dc) ==
    [name |-> name, num_params |-> 0, params |-> None, return_type |-> None,
     doc_comments |-> dc]

Directive(text) == STR_DOC3SP \o RHAI_FUNCTION_INDEX_PATTERN \o text

AlphabeticalNames == { <<"b">>, <<"B">>, <<"a", "b">>, STR_GET \o <<"a">> }

ByIndexNames == { <<"a">>, <<"b">>, <<"c">> }

ByIndexDocComments ==
    { None, Some(<<STR_DOC3SP \o <<"t">>>>) }
    \cup { Some(<<Directive(text)>>) :
              text \in {<<"0">>, <<"1">>, <<"2">>, <<"3">>, <<"x">>} }

FunctionInputs(self) ==
    IF self = "Alphabetical"
    THEN SeqsUpTo({ Function(n, None) : n \in AlphabeticalNames }, MaxFunctions)
    ELSE SeqsUpTo({ Function(n, dc) : n \in ByIndexNames, dc \in ByIndexDocComments },
                  MaxFunctions)

OrderIdle ==
    /\ functions = <<>> /\ order = "Alphabetical" /\ function_groups = <<>>
    /\ fn_groups = Ok(<<>>) /\ md = Ok(<<>>) /\ order_pc = "idle"

InitOrder ==
    /\ order \in {"Alphabetical", "ByIndex"}
    /\ functions \in FunctionInputs(order)
    /\ function_groups = <<>>
    /\ fn_groups = Ok(<<>>)
    /\ md = Ok(<<>>)
    /\ order_pc = "group"

\* The HashMap of the groups, collected into a Vec in the order it iterates.
GroupFunctions ==
    /\ order_pc = "group"
    /\ \E e \in Enumerations(GroupKeys(functions)) :
          function_groups' = [i \in DOMAIN e |-> Group(functions, e[i])]
    /\ order_pc' = "order"
    /\ UNCHANGED <<functions, order, fn_groups, md, notOrder>>

\* An error or a panic ends generate_module_documentation.
OrderFunctionGroups ==
    /\ order_pc = "order"
    /\ fn_groups' = order_function_groups(order, function_groups)
    /\ md' = IF fn_groups'.kind = "Ok" THEN md ELSE fn_groups'
    /\ order_pc' = IF fn_groups'.kind = "Ok" THEN "render" ELSE "done"
    /\ UNCHANGED <<functions, order, function_groups, notOrder>>

\* The loop that appends one block per group to md.documentation.
RenderFunctions ==
    /\ order_pc = "render"
    /\ md' = RenderedModule(STR_GLOBAL, None, RenderGroupsFrom(fn_groups.v, 1, <<>>))
    /\ order_pc' = "done"
    /\ UNCHANGED <<functions, order, function_groups, fn_groups, notOrder>>

NextOrder == GroupFunctions \/ OrderFunctionGroups

(***************************************************************************)
(* One module's functions, up to MaxRendered of them, grouped, ordered and *)
(* rendered.  A function comes in one of three variants: without           *)
(* docComments and parameters, or with a comment, a directive (index 1 or  *)
(* 2) and one or two parameters.                                           *)
(***************************************************************************)
MaxRendered == 3

RenderedNames ==
    { <<"f">>, STR_ANON \o <<"1">>, STR_GET \o STR_ANON \o <<"1">>,
      <<"a">> \o STR_GET \o <<"n", "o", "n", "$", "1">> }

Param(name) == [name |-> Some(name), type |-> Some(STR_INT_UPPER)]

RenderedVariants ==
    { [num_params |-> 0, params |-> None, doc_comments |-> None],
      [num_params |-> 1, params |-> Some(<<Param(<<"x">>)>>),
       doc_comments |-> Some(<<STR_DOC3SP \o <<"o", "n", "e">>, Directive(<<"1">>)>>)],
      [num_params |-> 2, params |-> Some(<<Param(<<"x">>), Param(<<"y">>)>>),
       doc_comments |-> Some(<<STR_DOC3SP \o <<"t", "w", "o">>, Directive(<<"2">>)>>)] }

RenderedFunctions ==
    { [name |-> n, num_params |-> v.num_params, params |-> v.params,
       return_type |-> None, doc_comments |-> v.doc_comments] :
         n \in RenderedNames, v \in RenderedVariants }

InitRender ==
    /\ order \in {"Alphabetical", "ByIndex"}
    /\ functions \in SeqsUpTo(RenderedFunctions, MaxRendered)
    /\ function_groups = <<>>
    /\ fn_groups = Ok(<<>>)
    /\ md = Ok(<<>>)
    /\ order_pc = "group"

NextRender == GroupFunctions \/ OrderFunctionGroups \/ RenderFunctions

(***************************************************************************)
(* The tree of modules                                                     *)
(*                                                                         *)
(* A raw JSON value either decodes into a ModuleMetadata (doc, functions,  *)
(* modules: the pairs of key and raw value in the order the map hands them *)
(* out) or fails to, with the message of serde_json's error.  The walk of  *)
(* generate_module_documentation is kept as the stack of its calls: the    *)
(* node built so far and the sub-modules still to visit.                   *)
(***************************************************************************)
\* Lines 268-329 for a decoded module, the HashMap enumerating the groups as e:
\* Ok(node without sub-modules), the PreProcessing error, or a panic.
ModuleHead(self, namespace, meta, e) ==
    IF ~meta.functions.some THEN RenderedModule(namespace, meta.doc, Ok(<<>>))
    ELSE RenderOrdered(namespace, meta.doc,
             order_function_groups(self, [i \in DOMAIN e |-> Group(meta.functions.v, e[i])]))

ModuleKeys(meta) == IF meta.functions.some THEN GroupKeys(meta.functions.v) ELSE {}

SubModules(meta) == IF meta.modules.some THEN meta.modules.v ELSE <<>>

Frame(node, meta) == [md |-> node, sub_modules |-> SubModules(meta)]

\* md.sub_modules.push(..) in the caller, once the call on top has returned.
PushSubModule(frame, node) ==
    [frame EXCEPT !.md.sub_modules = Append(@, node)]

(***************************************************************************)
(* A build: the export of the engine's metadata fails, or gives a root     *)
(* value; a value has up to MaxSubModules sub-modules, each with at most   *)
(* one sub-module of its own.  The functions of a module are absent, or    *)
(* one function: with the directive of index 1, without docComments, or    *)
(* with the directive of index 0.                                          *)
(***************************************************************************)
MaxSubModules == 2

Undecodable(msg) == [decodes |-> FALSE, error |-> msg]

Decodable(doc, fs, ms) ==
    [decodes |-> TRUE, doc |-> doc, functions |-> fs, modules |-> ms]

ModuleFunctions ==
    { None,
      Some(<<Function(<<"f">>, Some(<<Directive(<<"1">>)>>))>>),
      Some(<<Function(<<"g">>, None)>>),
      Some(<<Function(<<"h">>, Some(<<Directive(<<"0">>)>>))>>) }

SubModuleKeys == <<<<"m">>, <<"n">>, <<"o">>, <<"p">>>>

\* The map of the values vs, keyed in order.
KeyedModules(vs) == [i \in DOMAIN vs |-> [key |-> SubModuleKeys[i], value |-> vs[i]]]

ValuesAtDepth2 ==
    { Undecodable(<<"e", "2">>) } \cup { Decodable(None, fs, None) : fs \in ModuleFunctions }

ValuesAtDepth1 ==
    { Undecodable(<<"e", "1">>) }
    \cup { Decodable(None, fs, None) : fs \in ModuleFunctions }
    \cup { Decodable(None, fs, Some(KeyedModules(<<v>>))) :
              fs \in ModuleFunctions, v \in ValuesAtDepth2 }

RootValues ==
    { Undecodable(<<"e", "0">>) }
    \cup { Decodable(Some(STR_DOC3SP \o <<"d">>), fs, Some(KeyedModules(vs))) :
              fs \in ModuleFunctions, vs \in SeqsUpTo(ValuesAtDepth1, MaxSubModules) }

\* Engine::gen_fn_metadata_to_json: the JSON of the root, or an error.
Engines ==
    { [exported |-> FALSE, error |-> <<"e", "x">>] }
    \cup { [exported |-> TRUE, json |-> v] : v \in RootValues }

BuildIdle ==
    /\ engine = [exported |-> FALSE, error |-> <<>>] /\ options = [order |-> "Alphabetical"]
    /\ stack = <<>> /\ result = Ok(<<>>) /\ build_pc = "idle"

InitBuild ==
    /\ engine \in Engines
    /\ options \in [order : {"Alphabetical", "ByIndex"}]
    /\ stack = <<>>
    /\ result = Ok(<<>>)
    /\ build_pc = "start"

\* The call generate_module_documentation(namespace, meta), up to its loop over
\* the sub-modules: an error or a panic unwinds the whole stack.
FailBuild(error) ==
    /\ stack' = <<>>
    /\ result' = error
    /\ build_pc' = "done"

\* The call has got as far as head: its frame goes on the callers, or the
\* error (or panic) ends the build.
EnterModule(meta, head, callers) ==
    IF head.kind = "Ok"
    THEN /\ stack' = <<Frame(head.v, meta)>> \o callers
         /\ build_pc' = "walk"
         /\ UNCHANGED result
    ELSE FailBuild(head)

\* generate_module_documentation(namespace, meta), up to its loop over the
\* sub-modules.
CallModule(namespace, meta, callers) ==
    \E e \in Enumerations(ModuleKeys(meta)) :
        EnterModule(meta, ModuleHead(options.order, namespace, meta, e), callers)

GenerateDocumentation ==
    /\ build_pc = "start"
    /\ IF ~engine.exported THEN FailBuild(Metadata(engine.error))
       ELSE IF ~engine.json.decodes THEN FailBuild(Metadata(engine.json.error))
       ELSE CallModule(STR_GLOBAL, engine.json, <<>>)
    /\ UNCHANGED <<engine, options, notBuild>>

\* One iteration of `for (sub_module, value) in sub_modules`: the value is
\* decoded and the call made.
VisitSubModule ==
    /\ build_pc = "walk"
    /\ Head(stack).sub_modules # <<>>
    /\ LET top == Head(stack)
           next == Head(top.sub_modules)
       IN IF ~next.value.decodes THEN FailBuild(Metadata(next.value.error))
          ELSE CallModule(top.md.name \o STR_NS_SEP \o next.key, next.value,
                          <<[top EXCEPT !.sub_modules = Tail(@)]>> \o Tail(stack))
    /\ UNCHANGED <<engine, options, notBuild>>

\* Ok(md): the node goes to the caller's sub_modules, or is the result.
ReturnModule ==
    /\ build_pc = "walk"
    /\ Head(stack).sub_modules = <<>>
    /\ IF Len(stack) = 1
       THEN /\ result' = Ok(Head(stack).md)
            /\ stack' = <<>>
            /\ build_pc' = "done"
       ELSE /\ stack' = <<PushSubModule(stack[2], Head(stack).md)>> \o Tail(Tail(stack))
            /\ UNCHANGED <<result, build_pc>>
    /\ UNCHANGED <<engine, options, notBuild>>

NextBuild == GenerateDocumentation \/ VisitSubModule \/ ReturnModule

(***************************************************************************)
(* Specifications: one per component, and all of them together.            *)
(***************************************************************************)
StartType == InitType /\ ScanIdle /\ FmtIdle /\ DefIdle /\ OrderIdle /\ BuildIdle
StartScan == InitScan /\ TypeIdle /\ FmtIdle /\ DefIdle /\ OrderIdle /\ BuildIdle
StartFmt == InitFmt /\ TypeIdle /\ ScanIdle /\ DefIdle /\ OrderIdle /\ BuildIdle
StartDef == InitDef /\ TypeIdle /\ ScanIdle /\ FmtIdle /\ OrderIdle /\ BuildIdle
StartOrder == InitOrder /\ TypeIdle /\ ScanIdle /\ FmtIdle /\ DefIdle /\ BuildIdle
StartRender == InitRender /\ TypeIdle /\ ScanIdle /\ FmtIdle /\ DefIdle /\ BuildIdle
StartBuild == InitBuild /\ TypeIdle /\ ScanIdle /\ FmtIdle /\ DefIdle /\ OrderIdle

SpecType == StartType /\ [][NextType]_vars
SpecScan == StartScan /\ [][NextScan]_vars
SpecFmt == StartFmt /\ [][NextFmt]_vars
SpecDef == StartDef /\ [][NextDef]_vars
SpecOrder == StartOrder /\ [][NextOrder]_vars
SpecRender == StartRender /\ [][NextRender]_vars
SpecBuild == StartBuild /\ [][NextBuild]_vars

Init ==
    \/ StartType
    \/ StartScan
    \/ StartFmt
    \/ StartDef
    \/ StartOrder
    \/ StartRender
    \/ StartBuild
Next == NextType \/ NextScan \/ NextFmt \/ NextDef \/ NextRender \/ NextBuild
Spec == Init /\ [][Next]_vars

(***************************************************************************)
(* Properties                                                              *)
(***************************************************************************)
\* order_function_groups has returned (or panicked).
Ordered == order_pc \in {"render", "done"}

(***************************************************************************)
(* What the claims say of a group and its directive                        *)
(***************************************************************************)
\* No overload of g has a docComments fragment that holds the marker.
LacksDirective(g) ==
    \A i \in 1..Len(g.polymorphisms) :
        LET dc == g.polymorphisms[i].doc_comments
        IN dc.some => \A j \in 1..Len(dc.v) : ~Contains(dc.v[j], RHAI_FUNCTION_INDEX_PATTERN)

\* g has a directive and its index is a number.
HasIndex(g) ==
    /\ ~LacksDirective(g)
    /\ ParseUsize(FindDirective(g.polymorphisms).v).kind = "Ok"

DirectiveIndex(g) == ParseUsize(FindDirective(g.polymorphisms).v).v

\* Every group has a directive, and the indices are 1..n, each once.
IndicesAreOneToN(groups) ==
    /\ \A i \in 1..Len(groups) : HasIndex(groups[i])
    /\ { DirectiveIndex(groups[i]) : i \in 1..Len(groups) } = 1..Len(groups)

\* Two groups claim one index, or an index is outside 1..=n.
IndexClashOrOutOfRange(groups) ==
    \E i \in 1..Len(groups) :
        /\ HasIndex(groups[i])
        /\ \/ DirectiveIndex(groups[i]) \notin 1..Len(groups)
           \/ \E j \in 1..Len(groups) :
                 j # i /\ HasIndex(groups[j])
                 /\ DirectiveIndex(groups[j]) = DirectiveIndex(groups[i])

(***************************************************************************)
(* C1: under ByIndex, when every group has a directive and the indices of  *)
(* the n groups are 1..n, each once, the result has length n and the group *)
(* with index N is at position N-1 (from 0), whatever the order in which   *)
(* the groups were enumerated.                                             *)
(***************************************************************************)
C1_ByIndexPlacesByIndex ==
    (Ordered /\ order = "ByIndex" /\ IndicesAreOneToN(function_groups)) =>
        /\ fn_groups.kind = "Ok"
        /\ Len(fn_groups.v) = Len(function_groups)
        /\ \A i \in 1..Len(function_groups) :
              fn_groups.v[DirectiveIndex(function_groups[i])] = function_groups[i]

C1_Witness ==
    /\ Ordered /\ order = "ByIndex"
    /\ Len(function_groups) = 3
    /\ IndicesAreOneToN(function_groups)
    /\ DirectiveIndex(function_groups[1]) = 3
    /\ fn_groups.kind = "Ok"
    /\ fn_groups.v[3] = function_groups[1]

(***************************************************************************)
(* C2: under ByIndex, if some group has no directive in the docComments of *)
(* any of its overloads, the result is a PreProcessing error whose message *)
(* names that group's function.  (The error of a group whose index is no   *)
(* number, when that group is met first, is let through here.)             *)
(***************************************************************************)
\* g has a directive, and what follows the marker is no number.
IndexIsNoNumber(g) ==
    /\ ~LacksDirective(g)
    /\ ParseUsize(FindDirective(g.polymorphisms).v).kind = "Err"

C2_MissingDirectiveIsReported ==
    (/\ Ordered /\ order = "ByIndex"
     /\ \E i \in 1..Len(function_groups) : LacksDirective(function_groups[i])) =>
        /\ fn_groups.kind = "PreProcessing"
        /\ \E i \in 1..Len(function_groups) :
              \/ /\ LacksDirective(function_groups[i])
                 /\ fn_groups.msg = STR_MISSING_ORD \o function_groups[i].name
              \/ /\ IndexIsNoNumber(function_groups[i])
                 /\ fn_groups.msg
                       = ParseUsize(FindDirective(function_groups[i].polymorphisms).v).msg

(***************************************************************************)
(* C3: under ByIndex, if two groups claim the same index or an index is    *)
(* outside 1..=groupCount, the ordering is rejected with a PreProcessing   *)
(* error: no slot is overwritten and nothing panics.                       *)
(***************************************************************************)
C3_ClashIsRejected ==
    (/\ Ordered /\ order = "ByIndex"
     /\ IndexClashOrOutOfRange(function_groups)) =>
        fn_groups.kind = "PreProcessing"

(***************************************************************************)
(* C4: under Alphabetical, the result is the groups of the module in       *)
(* ascending order of their raw names, whatever the order in which the     *)
(* groups came out of the map built during grouping.                       *)
(***************************************************************************)
\* a is before b: a is a proper prefix of b, or at the first difference a has
\* the smaller byte.
ByteLess(a, b) ==
    \E k \in 1..(Len(a) + 1) :
        /\ k <= Len(b)
        /\ \A j \in 1..(k - 1) : a[j] = b[j]
        /\ k <= Len(a) => Byte(a[k]) < Byte(b[k])

C4_AlphabeticalSortsRawNames ==
    (Ordered /\ order = "Alphabetical") =>
        /\ fn_groups.kind = "Ok"
        /\ Len(fn_groups.v) = Cardinality(GroupKeys(functions))
        /\ { fn_groups.v[i] : i \in 1..Len(fn_groups.v) }
              = { Group(functions, k) : k \in GroupKeys(functions) }
        /\ \A i \in 1..Len(fn_groups.v) : \A j \in (i + 1)..Len(fn_groups.v) :
              ByteLess(fn_groups.v[i].name, fn_groups.v[j].name)

C4_Witness ==
    /\ Ordered /\ order = "Alphabetical"
    /\ Len(function_groups) = 3
    /\ function_groups[1].name = STR_GET \o <<"a">>
    /\ function_groups[2].name = <<"a", "b">>
    /\ function_groups[3].name = <<"B">>
    /\ fn_groups.v = <<function_groups[3], function_groups[2], function_groups[1]>>

(***************************************************************************)
(* C9: remove_result unwraps exactly the recognised forms.  `Result<T`     *)
(* followed by one of the four suffix spellings, and `EngineResult<T>`,    *)
(* `RhaiResultOf<T>`, `rhai::RhaiResultOf<T>`, yield T trimmed (an inner   *)
(* `&mut` stays); every other string comes back unchanged.                 *)
(***************************************************************************)
ResultSuffixes == {SUFFIX_BOX, SUFFIX_BOX_RHAI, SUFFIX_SP_BOX, SUFFIX_SP_BOX_RHAI}
BracketPrefixes == {STR_ENGINE_RESULT, STR_RHAI_RESULT_OF, STR_RHAI_RHAI_RESULT_OF}

\* t = pre \o T \o suf for some T
Wraps(t, pre, suf) ==
    Len(t) >= Len(pre) + Len(suf) /\ StartsWith(t, pre) /\ EndsWith(t, suf)
Inner(t, pre, suf) == SubSeq(t, Len(pre) + 1, Len(t) - Len(suf))

C9_RemoveResultForms ==
    ty_pc = "done" =>
        /\ \A suf \in ResultSuffixes :
              Wraps(ty, STR_RESULT, suf) => unwrapped = Trim(Inner(ty, STR_RESULT, suf))
        /\ \A pre \in BracketPrefixes :
              Wraps(ty, pre, STR_GT) => unwrapped = Trim(Inner(ty, pre, STR_GT))
        /\ (/\ \A suf \in ResultSuffixes : ~Wraps(ty, STR_RESULT, suf)
            /\ \A pre \in BracketPrefixes : ~Wraps(ty, pre, STR_GT))
              => unwrapped = ty

C9_Witness ==
    /\ ty_pc = "done"
    /\ Wraps(ty, STR_RESULT, SUFFIX_SP_BOX_RHAI)
    /\ unwrapped = <<"&", "m", "u", "t", " ", "T">>
    /\ unwrapped # Inner(ty, STR_RESULT, SUFFIX_SP_BOX_RHAI)

(***************************************************************************)
(* C10: remove_test_code scans the lines in order with a flag that starts  *)
(* false and is toggled by exactly the lines that, trimmed, are three      *)
(* backticks; a line is dropped iff the flag is true when it is scanned,   *)
(* it is no toggle line, it starts with `#` and not with `#{`.  All other  *)
(* lines are kept in order.                                                *)
(***************************************************************************)
TogglesFence(l) == Trim(l) = <<BACKTICK, BACKTICK, BACKTICK>>

\* The flag when line i of ls is scanned: an odd number of toggle lines before it.
FlagAt(ls, i) == Cardinality({ j \in 1..(i - 1) : TogglesFence(ls[j]) }) % 2 = 1

DroppedAt(ls, i) ==
    /\ FlagAt(ls, i)
    /\ ~TogglesFence(ls[i])
    /\ ls[i] # <<>> /\ ls[i][1] = "#"
    /\ ~(Len(ls[i]) >= 2 /\ ls[i][2] = "{")

\* The lines among the first n of ls that are not dropped, in order.
RECURSIVE KeptUpTo(_, _)
KeptUpTo(ls, n) ==
    IF n = 0 THEN <<>>
    ELSE KeptUpTo(ls, n - 1) \o (IF DroppedAt(ls, n) THEN <<>> ELSE <<ls[n]>>)

HasNoFence(ls) == \A i \in 1..Len(ls) : ~TogglesFence(ls[i])

ScanFollowsFlag ==
    /\ scan_pc = "loop" =>
          /\ in_code_block = FlagAt(lines, line_no)
          /\ formatted = KeptUpTo(lines, line_no - 1)
    /\ scan_pc = "done" => scan_out = Join(KeptUpTo(lines, Len(lines)), NL)

\* As claimed: ..., so text with no fence is returned unchanged.
C10_Original ==
    /\ ScanFollowsFlag
    /\ (scan_pc = "done" /\ HasNoFence(lines)) => scan_out = doc_text

\* As amended: ..., so text with no fence (and no carriage return) is returned
\* unchanged but for a final line feed, which is dropped.
C10_RemoveTestCode ==
    /\ ScanFollowsFlag
    /\ (scan_pc = "done" /\ HasNoFence(lines)) =>
          IF EndsWith(doc_text, NL)
          THEN scan_out = Take(doc_text, Len(doc_text) - 1)
          ELSE scan_out = doc_text

C10_Witness ==
    /\ scan_pc = "done"
    /\ doc_text = Join(<<<<"#", "a">>, STR_FENCE, <<"#", "a">>, <<"#", "{", "a">>>>, NL) \o NL
    /\ scan_out = Join(<<<<"#", "a">>, STR_FENCE, <<"#", "{", "a">>>>, NL)

(***************************************************************************)
(* C8: formatting a function's comment set removes exactly the lines that  *)
(* contain the ordering-directive marker, and keeps every other line of    *)
(* every fragment, in order, each as a line of its own.                    *)
(***************************************************************************)
RemainingLines(fragment) ==
    SelectSeq(Lines(fragment), LAMBDA l : ~Contains(l, RHAI_FUNCTION_INDEX_PATTERN))

C8_LinesKeptApart ==
    (fmt_pc \in {"tokens_removed", "delimiters_removed", "done"} /\ doc_comments.some) =>
        /\ ~Contains(tokens_removed, RHAI_FUNCTION_INDEX_PATTERN)
        /\ tokens_removed =
              Join([i \in 1..Len(doc_comments.v) |->
                        Join(RemainingLines(doc_comments.v[i]), NL)], NL)

(***************************************************************************)
(* C6: generate_function_definition never fails: exactly numParams         *)
(* parameters are rendered, joined by `, `; a parameter with no entry in   *)
(* params (params too short, or absent) is `_: ?`, an entry without a name *)
(* renders `_` and one without a type renders `?`.                         *)
(***************************************************************************)
ParamAsClaimed(m, i) ==
    IF ~m.params.some \/ i > Len(m.params.v) THEN <<"_", ":", " ", "?">>
    ELSE LET e == m.params.v[i]
         IN (IF e.name.some THEN e.name.v ELSE <<"_">>) \o <<":", " ">>
            \o (IF e.type.some THEN def_type_name(e.type.v) ELSE <<"?">>)

C6_NeverFails ==
    def_pc = "done" =>
        /\ definition.kind = "Ok"
        /\ definition.v =
              DefinitionHead(metadata)
              \o Join([i \in 1..metadata.num_params |-> ParamAsClaimed(metadata, i)],
                      <<",", " ">>)
              \o DefinitionTail(metadata)

(***************************************************************************)
(* C5: a group contributes no block to its module's documentation iff its  *)
(* raw name, with a leading `get$` or `set$` stripped, starts with         *)
(* `anon$`, under both policies; under ByIndex such a group is still       *)
(* ordered into the slot of its index.                                     *)
(***************************************************************************)
LeadingAccessorStripped(name) ==
    IF StartsWith(name, <<"g", "e", "t", "$">>) \/ StartsWith(name, <<"s", "e", "t", "$">>)
    THEN Drop(name, 4)
    ELSE name

IsAnonymousAsClaimed(g) ==
    StartsWith(LeadingAccessorStripped(g.name), <<"a", "n", "o", "n", "$">>)

C5_AnonymousGroupsOnly ==
    /\ (order_pc = "done" /\ fn_groups.kind = "Ok" /\ md.kind = "Ok") =>
          LET shown == SelectSeq(fn_groups.v, LAMBDA g : ~IsAnonymousAsClaimed(g))
              blocks == md.v.documentation.blocks
          IN /\ Len(blocks) = Len(shown)
             /\ \A i \in 1..Len(shown) :
                   blocks[i].definitions = Definitions(shown[i].polymorphisms).v
    /\ (Ordered /\ order = "ByIndex" /\ IndicesAreOneToN(function_groups)) =>
          /\ fn_groups.kind = "Ok"
          /\ \A i \in 1..Len(function_groups) :
                fn_groups.v[DirectiveIndex(function_groups[i])] = function_groups[i]

(***************************************************************************)
(* C7: a build is all or nothing over the tree of modules.  If the root or *)
(* a sub-module at any depth fails to decode, the result is the Metadata   *)
(* error with the decode message; if the ordering of a module at any depth *)
(* fails, the result is that PreProcessing error.  Otherwise the result    *)
(* has one node per module, named `<parent name>::<child key>` below the   *)
(* root `global`, the children in the order of the input mapping.          *)
(***************************************************************************)
\* The names of a tree of nodes.
RECURSIVE Shape(_)
Shape(node) ==
    [name |-> node.name,
     sub_modules |-> [i \in DOMAIN node.sub_modules |-> Shape(node.sub_modules[i])]]

\* The ordering of the functions of a decoded module (each module here has one
\* group at most, so one enumeration).
OrderingOf(meta) ==
    IF ~meta.functions.some THEN Ok(<<>>)
    ELSE LET e == CHOOSE e \in Enumerations(GroupKeys(meta.functions.v)) : TRUE
         IN order_function_groups(options.order,
                [i \in DOMAIN e |-> Group(meta.functions.v, e[i])])

\* What the build of a raw value named ns comes to, as claimed: the first
\* failure in the order of the walk, or the tree of names.
RECURSIVE ClaimedOutcome(_, _)
RECURSIVE ClaimedChildren(_, _, _, _)
ClaimedOutcome(value, ns) ==
    IF ~value.decodes THEN Metadata(value.error)
    ELSE IF OrderingOf(value).kind = "PreProcessing" THEN OrderingOf(value)
    ELSE ClaimedChildren(SubModules(value), ns, 1, <<>>)

ClaimedChildren(ms, ns, i, subs) ==
    IF i > Len(ms) THEN Ok([name |-> ns, sub_modules |-> subs])
    ELSE LET child == ClaimedOutcome(ms[i].value, ns \o <<":", ":">> \o ms[i].key)
         IN IF child.kind # "Ok" THEN child
            ELSE ClaimedChildren(ms, ns, i + 1, Append(subs, child.v))

ClaimedBuild ==
    IF ~engine.exported THEN Metadata(engine.error)
    ELSE ClaimedOutcome(engine.json, <<"g", "l", "o", "b", "a", "l">>)

C7_AllOrNothing ==
    build_pc = "done" =>
        IF ClaimedBuild.kind = "Ok"
        THEN result.kind = "Ok" /\ Shape(result.v) = ClaimedBuild.v
        ELSE result = ClaimedBuild

(***************************************************************************)
(* C11: the block of every rendered group has one signature line per       *)
(* overload, in the order of the overloads in the module's sequence of     *)
(* functions, and its details are the formatted doc comment of the first   *)
(* overload only: without docComments on the first overload there are no   *)
(* details, whatever the later overloads carry.                            *)
(***************************************************************************)
\* The overloads of a name, as the input sequence has them.
Overloads(name) == SelectSeq(functions, LAMBDA f : f.name = name)

\* The groups that are rendered, in the order of fn_groups.
RenderedGroups ==
    SelectSeq(fn_groups.v, LAMBDA g : ~StartsWith(DisplayName(g.name), STR_ANON))

DetailsOfFirst(overloads) ==
    IF Head(overloads).doc_comments.some
    THEN Some(remove_test_code(fmt_doc_comments(
                 remove_extra_tokens(Head(overloads).doc_comments.v))))
    ELSE None

C11_SignaturesAndDetails ==
    (order_pc = "done" /\ fn_groups.kind = "Ok" /\ md.kind = "Ok") =>
        /\ Len(md.v.documentation.blocks) = Len(RenderedGroups)
        /\ \A i \in 1..Len(RenderedGroups) :
              LET overloads == Overloads(RenderedGroups[i].name)
                  signatures == Lines(md.v.documentation.blocks[i].definitions)
              IN /\ Len(signatures) = Len(overloads)
                 /\ \A k \in 1..Len(overloads) :
                       signatures[k] = generate_function_definition(overloads[k]).v
                 /\ md.v.documentation.blocks[i].details = DetailsOfFirst(overloads)

\* f(), without docComments, and then f(x) with a comment: two signature lines
\* and no details.
C11_Witness ==
    /\ order_pc = "done" /\ md.kind = "Ok"
    /\ Len(functions) = 2
    /\ functions[1].name = <<"f">> /\ functions[2].name = <<"f">>
    /\ ~functions[1].doc_comments.some /\ functions[2].doc_comments.some
    /\ Len(md.v.documentation.blocks) = 1
    /\ Len(Lines(md.v.documentation.blocks[1].definitions)) = 2
    /\ md.v.documentation.blocks[1].details = None

=============================================================================
